---- MODULE Spec2Model ----
(***************************************************************************)
(* Model of the send path of the siesta Kafka producer                     *)
(* (src/kafka_producer.go): KafkaProducer.Send/send/Flush/Close and the    *)
(* topicMetadataCache (Get, Refresh).  Every process is one goroutine      *)
(* making one call of Send; its program counter names the source line it   *)
(* is about to execute.  The Connector, the Partitioner and the            *)
(* RecordAccumulator are not part of the source file: the Connector's      *)
(* answer is an input, the other two follow their stated contracts.        *)
(***************************************************************************)
EXTENDS Integers, Sequences, FiniteSets, TLC

\* ------------------------------------------------------------- bounds
\* The clock stops here.
MaxTime == 2

\* ------------------------------------------------ program constants
\* tmc.ttl, in clock units (config.MetadataExpireMs)
TTL == 1
\* make(chan *RecordMetadata, 1)
ChanCap == 1

\* The concurrent calls of Send.
Procs == {1, 2}
Topics == {"a", "b"}

\* The Go nil error, and the errors the code produces.
NoError == "nil"
ErrSerialize == "Can't serialize"
ErrFetch == "GetTopicMetadata failed"
ErrNoMetadata == "Could not get topic metadata for topic"
ErrPartition == "partitioner failed"

\* Application payloads by runtime type.
NilValue == [type |-> "nil"]
BytesValue == [type |-> "[]byte", data |-> <<7>>]
StringValue == [type |-> "string", data |-> <<7>>]
Keys == {NilValue, BytesValue, StringValue}
Values == {StringValue, BytesValue}

\* A []byte: nil, or a slice with its content.
NilBytes == [isNil |-> TRUE]
Bytes(b) == [isNil |-> FALSE, b |-> b]

\* A serializer's result ([]byte, error).
SerOk(b) == [bytes |-> Bytes(b), err |-> NoError]
SerNil == [bytes |-> NilBytes, err |-> NoError]
SerErr == [bytes |-> NilBytes, err |-> ErrSerialize]

ByteSerializer(value) ==
    IF value.type = "nil" THEN SerNil
    ELSE IF value.type = "[]byte" THEN SerOk(value.data)
    ELSE SerErr

StringSerializer(value) ==
    IF value.type = "string" THEN SerOk([i \in 1..Len(value.data) |-> value.data[i]])
    ELSE SerErr

\* The serializers the producer is constructed with.
keySerializer(value) == ByteSerializer(value)
valueSerializer(value) == StringSerializer(value)

\* A nil *topicMetadataCacheEntry, and a non-nil one.
Nil == [nil |-> TRUE]
IsNil(e) == "nil" \in DOMAIN e

newTopicMetadataCacheEntry(partitions, t) ==
    [partitions |-> partitions, timestamp |-> t]

\* The Connector's answers: an error, or a TopicMetadataResponse whose
\* TopicsMetadata lists distinct topics, each with its PartitionsMetadata.
PartitionsMetadataLists ==
    { <<>>, <<[PartitionID |-> 0], [PartitionID |-> 1]>> }
TopicMetadatas ==
    { [Topic |-> t, PartitionsMetadata |-> pm] : t \in Topics, pm \in PartitionsMetadataLists }
Responses ==
    { <<>> } \cup { <<tm>> : tm \in TopicMetadatas }
    \cup { <<x, y>> : x \in { tm \in TopicMetadatas : tm.Topic = "a" },
                      y \in { tm \in TopicMetadatas : tm.Topic = "b" } }

\* The result of Get: (partitions, nil) or (nil, err).
GetOk(partitions) == [partitions |-> partitions, err |-> NoError]
GetErr(e) == [err |-> e]
\* Get has not returned.
NoResult == [err |-> NoError]

\* A nil chan *RecordMetadata; the channel of call p is p.
NilChan == 0

VARIABLES
    pc,           \* where each call of Send stands
    rec,          \* its ProducerRecord
    getRes,       \* what Get returned
    sites,        \* the calls of Refresh Get made (1: line 231, 2: line 240), the last one last
    rerr,         \* Get's local err: what Refresh returned
    resp,         \* Refresh's topicMetadataResponse
    idx,          \* Refresh's position in TopicsMetadata
    cache,        \* tmc.cache
    refreshLock,  \* tmc.refreshLock: 0, or the call holding it
    now,          \* time.Now()
    mchan,        \* the completion channel of each call
    addChan,      \* kp.accumulator.addChan
    accPending,   \* records the accumulator ingested and has not answered
    accClosed,    \* accumulator.close() was called
    crashed,      \* the runtime stopped the process (concurrent map read and map write)
    steps,        \* per call, the outcome of each local step it ran
    fetches,      \* per call, the Connector invocations its Get made
    chkAge,       \* per call, the age of the entry at the check of line 239 (-1: no check)
    chkTs,        \* per call, the timestamp of the entry checked at line 239 (-1: no check)
    retTs,        \* per call, the timestamp of the entry whose list Get returned (-1: none)
    solo,         \* per call, no other call took a step since its Get began
    wrote,        \* per call, who wrote to its completion channel, in order
    flushed       \* the calls whose record a returned Flush left, and that still is, without a result

vars == << pc, rec, getRes, sites, rerr, resp, idx, cache, refreshLock, now,
           mchan, addChan, accPending, accClosed, crashed,
           steps, fetches, chkAge, chkTs, retTs, solo, wrote, flushed >>

\* The variables of the accumulator and of the completion channels.
accVars == << mchan, addChan, accPending, accClosed, wrote, flushed >>
\* The locals of Get and Refresh, and what is recorded of them.
getVars == << getRes, sites, rerr, resp, idx, fetches, chkAge, chkTs, retTs >>

StepNames == {"keySerializer", "valueSerializer", "Get", "Partitioner"}
NotRun == "-"

ZeroRecord ==
    [Topic |-> "a", Key |-> NilValue, Value |-> StringValue,
     metadataChan |-> NilChan, partition |-> 0,
     encodedKey |-> NilBytes, encodedValue |-> NilBytes]

\* newTopicMetadataCache, and the producer NewKafkaProducer returns.
Init ==
    /\ pc = [p \in Procs |-> "start"]
    /\ rec = [p \in Procs |-> ZeroRecord]
    /\ getRes = [p \in Procs |-> NoResult]
    /\ sites = [p \in Procs |-> <<>>]
    /\ rerr = [p \in Procs |-> NoError]
    /\ resp = [p \in Procs |-> <<>>]
    /\ idx = [p \in Procs |-> 0]
    /\ cache = [t \in Topics |-> Nil]
    /\ refreshLock = 0
    /\ now = 0
    /\ mchan = [p \in Procs |-> <<>>]
    /\ addChan = <<>>
    /\ accPending = {}
    /\ accClosed = FALSE
    /\ crashed = FALSE
    /\ steps = [p \in Procs |-> [s \in StepNames |-> NotRun]]
    /\ fetches = [p \in Procs |-> 0]
    /\ chkAge = [p \in Procs |-> -1]
    /\ chkTs = [p \in Procs |-> -1]
    /\ retTs = [p \in Procs |-> -1]
    /\ solo = [p \in Procs |-> TRUE]
    /\ wrote = [p \in Procs |-> <<>>]
    /\ flushed = {}

\* ------------------------------------------------------------ helpers

Last(seq) == seq[Len(seq)]

\* new(RecordMetadata) with its Error set: what send writes on a local failure.
ErrorMetadata(e) == [Offset |-> 0, Topic |-> "", Partition |-> 0, Error |-> e]

\* A send on a completion channel blocks while the channel is full.
CanDeliver(p) == Len(mchan[p]) < ChanCap

\* A local failure that returns without writing to the completion channel.
FailLocally_Silent(p, e) ==
    /\ mchan' = mchan
    /\ wrote' = wrote

\* send, lines 160-162 (167-169, 177-179, 184-186): metadata.Error = err;
\* metadataChan <- metadata.
FailLocally(p, e) ==
    /\ CanDeliver(p)
    /\ mchan' = [mchan EXCEPT ![p] = Append(@, ErrorMetadata(e))]
    /\ wrote' = [wrote EXCEPT ![p] = Append(@, "send")]

\* Another call is inside Refresh's loop, with a write of tmc.cache ahead.
Racing(p) == \E q \in Procs \ {p} : pc[q] = "store" /\ idx[q] <= Len(resp[q])

\* What tmc.cache[topic] can yield.  Get reads the map without holding
\* refreshLock: a read that overlaps another call's map write is a data race,
\* and may see the stored pointer or miss the key (or stop the process, see
\* MapAccessFault).
MapRead(p, topic) ==
    IF Racing(p) THEN {cache[topic], Nil} ELSE {cache[topic]}

\* A staleness test that also fires when the age equals the TTL.
IsStale_AtTTL(e, t) == e.timestamp + TTL <= t

\* A staleness test that compares against the wrong side of the clock.
IsStale_Reversed(e, t) == t < e.timestamp + TTL

\* cache.timestamp.Add(tmc.ttl).Before(time.Now())
IsStale(e, t) == e.timestamp + TTL < t

\* The inner loop of Refresh: the PartitionIDs of PartitionsMetadata, in order.
RECURSIVE AppendPartitionIDs(_, _)
AppendPartitionIDs(partitions, pms) ==
    IF pms = <<>> THEN partitions
    ELSE AppendPartitionIDs(Append(partitions, Head(pms).PartitionID), Tail(pms))

\* A store that appends the fetched partitions to the list already cached.
StoreEntry_Merge(c, topicMetadata, t) ==
    [c EXCEPT ![topicMetadata.Topic] =
        newTopicMetadataCacheEntry(
            AppendPartitionIDs(IF IsNil(@) THEN <<>> ELSE @.partitions,
                               topicMetadata.PartitionsMetadata), t)]

\* A store that keeps only the entry it writes.
StoreEntry_ClearOthers(c, topicMetadata, t) ==
    [x \in DOMAIN c |->
        IF x = topicMetadata.Topic
        THEN newTopicMetadataCacheEntry(
                 AppendPartitionIDs(<<>>, topicMetadata.PartitionsMetadata), t)
        ELSE Nil]

\* tmc.cache[topicMetadata.Topic] = newTopicMetadataCacheEntry(partitions)
StoreEntry(c, topicMetadata, t) ==
    [c EXCEPT ![topicMetadata.Topic] =
        newTopicMetadataCacheEntry(
            AppendPartitionIDs(<<>>, topicMetadata.PartitionsMetadata), t)]

\* A lock per topic: only a refresh of the same topic is waited for.
CanLock_PerTopic(p) ==
    IF refreshLock = 0 THEN TRUE ELSE rec[refreshLock].Topic # rec[p].Topic

\* refreshLock.Lock() returns to call p only when no call holds the lock.
CanLock(p) == refreshLock = 0

\* A fail-open Get: when the refresh of a stale entry fails, the cached list
\* is served.
OnRefreshError_ServeStale(p, e) ==
    IF Last(sites[p]) = 2 /\ ~IsNil(cache[rec[p].Topic])
    THEN GetOk(cache[rec[p].Topic].partitions)
    ELSE GetErr(e)

\* Get, lines 232-234 and 241-243: Refresh failed, Get returns (nil, err).
OnRefreshError(p, e) == GetErr(e)

\* The Partitioner's contract: a member of a non-empty list, an error on an
\* empty one.
PartitionerResults(record, partitions) ==
    IF partitions = <<>> THEN {[partition |-> 0, err |-> ErrPartition]}
    ELSE {[partition |-> partitions[i], err |-> NoError] : i \in 1..Len(partitions)}

Running(q) == pc[q] \notin {"start", "returned"}
\* Call q is inside Get, or back from it with the result not yet looked at.
InGet(q) == pc[q] \in {"get1", "lock", "fetching", "store", "get2", "get3", "getRet"}

\* History: a step of call p ends the solitude of every other call inside Get.
SoloAfterStepOf(p) ==
    [q \in Procs |-> IF q = p \/ ~InGet(q) THEN solo[q] ELSE FALSE]

SetStep(p, name, outcome) == [steps EXCEPT ![p][name] = outcome]

\* ------------------------------------------------------- Send pipeline

\* A key failure that writes the error and, the return missing, goes on to
\* serialize the value and to call Get.
KeyFailed_NoReturn(p, r, e) ==
    /\ FailLocally(p, e)
    /\ steps' = [steps EXCEPT ![p]["keySerializer"] = "err",
                              ![p]["valueSerializer"] =
                                  IF valueSerializer(r.Value).err = NoError
                                  THEN "ok" ELSE "err",
                              ![p]["Get"] = "running"]
    /\ rec' = [rec EXCEPT ![p] = r]
    /\ pc' = [pc EXCEPT ![p] = "get1"]
    /\ solo' = SoloAfterStepOf(p)

\* send, lines 158-163: the key serializer failed.
KeyFailed(p, r, e) ==
    /\ FailLocally(p, e)
    /\ steps' = SetStep(p, "keySerializer", "err")
    /\ rec' = [rec EXCEPT ![p] = r]
    /\ pc' = [pc EXCEPT ![p] = "returned"]
    /\ solo' = SoloAfterStepOf(p)

\* A value failure on a record whose encodedKey was already set.
ValueFailed_KeySet(p, r, e) ==
    /\ FailLocally(p, e)
    /\ steps' = [steps EXCEPT ![p]["keySerializer"] = "ok",
                              ![p]["valueSerializer"] = "err"]
    /\ rec' = [rec EXCEPT ![p] = [r EXCEPT !.encodedKey = keySerializer(r.Key).bytes]]
    /\ pc' = [pc EXCEPT ![p] = "returned"]
    /\ solo' = SoloAfterStepOf(p)

\* send, lines 165-170: the value serializer failed.
ValueFailed(p, r, e) ==
    /\ FailLocally(p, e)
    /\ steps' = [steps EXCEPT ![p]["keySerializer"] = "ok",
                              ![p]["valueSerializer"] = "err"]
    /\ rec' = [rec EXCEPT ![p] = r]
    /\ pc' = [pc EXCEPT ![p] = "returned"]
    /\ solo' = SoloAfterStepOf(p)

\* send, lines 172-175: both encoded fields are set and Get is called.
Serialized(p, r, key, value) ==
    /\ rec' = [rec EXCEPT ![p] = [r EXCEPT !.encodedKey = key,
                                           !.encodedValue = value]]
    /\ steps' = [steps EXCEPT ![p]["keySerializer"] = "ok",
                              ![p]["valueSerializer"] = "ok",
                              ![p]["Get"] = "running"]
    /\ pc' = [pc EXCEPT ![p] = "get1"]
    /\ solo' = [q \in Procs |->
                   IF q = p THEN \A o \in Procs \ {p} : ~Running(o)
                   ELSE IF InGet(q) THEN FALSE ELSE solo[q]]
    /\ UNCHANGED << mchan, wrote >>

\* Send, lines 149-151, and send, lines 156-175: a fresh completion channel,
\* both serializations and, when they succeed, the call of Get.
Send(p, r) ==
    /\ ~crashed
    /\ pc[p] = "start"
    /\ LET key == keySerializer(r.Key)
           value == valueSerializer(r.Value) IN
        IF key.err # NoError THEN KeyFailed(p, r, key.err)
        ELSE IF value.err # NoError THEN ValueFailed(p, r, value.err)
        ELSE Serialized(p, r, key.bytes, value.bytes)
    /\ UNCHANGED << getVars, cache, refreshLock, now,
                    addChan, accPending, accClosed, flushed, crashed >>

\* ------------------------------------------------- topicMetadataCache

\* A first lookup that does not refresh on a missing entry.
GetLookup_NoRefresh(p) ==
    /\ ~crashed
    /\ pc[p] = "get1"
    /\ pc' = [pc EXCEPT ![p] = "get2"]
    /\ solo' = SoloAfterStepOf(p)
    /\ UNCHANGED << rec, getVars, cache, refreshLock, now, accVars, crashed, steps >>

\* Get, lines 229-231: the first lookup; a nil entry calls Refresh.
GetLookup(p) ==
    /\ ~crashed
    /\ pc[p] = "get1"
    /\ \E e \in MapRead(p, rec[p].Topic) :
        IF IsNil(e)
        THEN /\ sites' = [sites EXCEPT ![p] = Append(@, 1)]
             /\ pc' = [pc EXCEPT ![p] = "lock"]
        ELSE /\ pc' = [pc EXCEPT ![p] = "get2"]
             /\ UNCHANGED sites
    /\ solo' = SoloAfterStepOf(p)
    /\ UNCHANGED << rec, getRes, rerr, resp, idx, fetches, chkAge, chkTs, retTs,
                    cache, refreshLock, now, accVars, crashed, steps >>

\* A Refresh that, once it has the lock, finds the entry another call stored
\* meanwhile and returns without calling the Connector.
RefreshLock_SkipIfPresent(p) ==
    /\ ~crashed
    /\ pc[p] = "lock"
    /\ CanLock(p)
    /\ IF ~IsNil(cache[rec[p].Topic]) /\ Last(sites[p]) = 1
       THEN /\ pc' = [pc EXCEPT ![p] = "get2"]
            /\ UNCHANGED << refreshLock, fetches >>
       ELSE /\ refreshLock' = p
            /\ fetches' = [fetches EXCEPT ![p] = @ + 1]
            /\ pc' = [pc EXCEPT ![p] = "fetching"]
    /\ solo' = SoloAfterStepOf(p)
    /\ UNCHANGED << rec, getRes, sites, rerr, resp, idx, chkAge, chkTs, retTs,
                    cache, now, accVars, crashed, steps >>

\* Refresh, lines 256-259: take the lock, call the Connector.
RefreshLock(p) ==
    /\ ~crashed
    /\ pc[p] = "lock"
    /\ CanLock(p)
    /\ refreshLock' = p
    /\ fetches' = [fetches EXCEPT ![p] = @ + 1]
    /\ pc' = [pc EXCEPT ![p] = "fetching"]
    /\ solo' = SoloAfterStepOf(p)
    /\ UNCHANGED << rec, getRes, sites, rerr, resp, idx, chkAge, chkTs, retTs,
                    cache, now, accVars, crashed, steps >>

\* A failed fetch that drops the entry of the topic asked for.
FetchFailed_Evict(p) ==
    /\ ~crashed
    /\ pc[p] = "fetching"
    /\ refreshLock' = 0
    /\ rerr' = [rerr EXCEPT ![p] = ErrFetch]
    /\ getRes' = [getRes EXCEPT ![p] = OnRefreshError(p, ErrFetch)]
    /\ steps' = SetStep(p, "Get", "err")
    /\ pc' = [pc EXCEPT ![p] = "getRet"]
    /\ solo' = SoloAfterStepOf(p)
    /\ cache' = [cache EXCEPT ![rec[p].Topic] = Nil]
    /\ UNCHANGED << rec, sites, resp, idx, fetches, chkAge, chkTs, retTs,
                    now, accVars, crashed >>

\* Refresh, lines 260-262 with the deferred Unlock, and Get, lines 232-234 or
\* 241-243: the Connector failed, Refresh and Get return the error.
FetchFailed(p) ==
    /\ ~crashed
    /\ pc[p] = "fetching"
    /\ refreshLock' = 0
    /\ rerr' = [rerr EXCEPT ![p] = ErrFetch]
    /\ getRes' = [getRes EXCEPT ![p] = OnRefreshError(p, ErrFetch)]
    /\ steps' = SetStep(p, "Get", "err")
    /\ pc' = [pc EXCEPT ![p] = "getRet"]
    /\ solo' = SoloAfterStepOf(p)
    /\ UNCHANGED << rec, sites, resp, idx, fetches, chkAge, chkTs, retTs,
                    cache, now, accVars, crashed >>

\* Refresh, line 259: the Connector answered with response r.
FetchSucceeded(p, r) ==
    /\ ~crashed
    /\ pc[p] = "fetching"
    /\ resp' = [resp EXCEPT ![p] = r]
    /\ idx' = [idx EXCEPT ![p] = 1]
    /\ pc' = [pc EXCEPT ![p] = "store"]
    /\ solo' = SoloAfterStepOf(p)
    /\ UNCHANGED << rec, getRes, sites, rerr, fetches, chkAge, chkTs, retTs,
                    cache, refreshLock, now, accVars, crashed, steps >>

\* Refresh, lines 264-270: one iteration of the loop over TopicsMetadata.
Store(p) ==
    /\ ~crashed
    /\ pc[p] = "store"
    /\ idx[p] <= Len(resp[p])
    /\ cache' = StoreEntry(cache, resp[p][idx[p]], now)
    /\ idx' = [idx EXCEPT ![p] = @ + 1]
    /\ solo' = SoloAfterStepOf(p)
    /\ UNCHANGED << pc, rec, getRes, sites, rerr, resp, fetches, chkAge, chkTs,
                    retTs, refreshLock, now, accVars, crashed, steps >>

\* Refresh, line 272 with the deferred Unlock: back in Get after line 231 or 240.
RefreshReturn(p) ==
    /\ ~crashed
    /\ pc[p] = "store"
    /\ idx[p] > Len(resp[p])
    /\ refreshLock' = 0
    /\ rerr' = [rerr EXCEPT ![p] = NoError]
    /\ resp' = [resp EXCEPT ![p] = <<>>]
    /\ idx' = [idx EXCEPT ![p] = 0]
    /\ pc' = [pc EXCEPT ![p] = IF Last(sites[p]) = 1 THEN "get2" ELSE "get3"]
    /\ solo' = SoloAfterStepOf(p)
    /\ UNCHANGED << rec, getRes, sites, fetches, chkAge, chkTs, retTs,
                    cache, now, accVars, crashed, steps >>

\* A second lookup that answers a missing entry with an empty list and no
\* error.
GetCheck_NilAsEmpty(p) ==
    /\ ~crashed
    /\ pc[p] = "get2"
    /\ \E e \in MapRead(p, rec[p].Topic) :
        IF IsNil(e)
        THEN /\ getRes' = [getRes EXCEPT ![p] = GetOk(<<>>)]
             /\ steps' = SetStep(p, "Get", "ok")
             /\ pc' = [pc EXCEPT ![p] = "getRet"]
             /\ UNCHANGED << sites, chkAge, chkTs >>
        ELSE /\ chkAge' = [chkAge EXCEPT ![p] = now - e.timestamp]
             /\ chkTs' = [chkTs EXCEPT ![p] = e.timestamp]
             /\ IF IsStale(e, now)
                THEN /\ sites' = [sites EXCEPT ![p] = Append(@, 2)]
                     /\ pc' = [pc EXCEPT ![p] = "lock"]
                ELSE /\ pc' = [pc EXCEPT ![p] = "get3"]
                     /\ UNCHANGED sites
             /\ UNCHANGED << getRes, steps >>
    /\ solo' = SoloAfterStepOf(p)
    /\ UNCHANGED << rec, rerr, resp, idx, fetches, retTs,
                    cache, refreshLock, now, accVars, crashed >>

\* Get, lines 237-240 and 252: the second lookup and the staleness check.
GetCheck(p) ==
    /\ ~crashed
    /\ pc[p] = "get2"
    /\ \E e \in MapRead(p, rec[p].Topic) :
        IF IsNil(e)
        THEN /\ getRes' = [getRes EXCEPT ![p] = GetErr(ErrNoMetadata)]
             /\ steps' = SetStep(p, "Get", "err")
             /\ pc' = [pc EXCEPT ![p] = "getRet"]
             /\ UNCHANGED << sites, chkAge, chkTs >>
        ELSE /\ chkAge' = [chkAge EXCEPT ![p] = now - e.timestamp]
             /\ chkTs' = [chkTs EXCEPT ![p] = e.timestamp]
             /\ IF IsStale(e, now)
                THEN /\ sites' = [sites EXCEPT ![p] = Append(@, 2)]
                     /\ pc' = [pc EXCEPT ![p] = "lock"]
                ELSE /\ pc' = [pc EXCEPT ![p] = "get3"]
                     /\ UNCHANGED sites
             /\ UNCHANGED << getRes, steps >>
    /\ solo' = SoloAfterStepOf(p)
    /\ UNCHANGED << rec, rerr, resp, idx, fetches, retTs,
                    cache, refreshLock, now, accVars, crashed >>

\* Get, lines 246-249 and 252: the last lookup and the return.
GetReturn(p) ==
    /\ ~crashed
    /\ pc[p] = "get3"
    /\ \E e \in MapRead(p, rec[p].Topic) :
        IF IsNil(e)
        THEN /\ getRes' = [getRes EXCEPT ![p] = GetErr(ErrNoMetadata)]
             /\ steps' = SetStep(p, "Get", "err")
             /\ UNCHANGED retTs
        ELSE /\ getRes' = [getRes EXCEPT ![p] = GetOk(e.partitions)]
             /\ retTs' = [retTs EXCEPT ![p] = e.timestamp]
             /\ steps' = SetStep(p, "Get", "ok")
    /\ pc' = [pc EXCEPT ![p] = "getRet"]
    /\ solo' = SoloAfterStepOf(p)
    /\ UNCHANGED << rec, sites, rerr, resp, idx, fetches, chkAge, chkTs,
                    cache, refreshLock, now, accVars, crashed >>

\* The Go runtime detects a map read that overlaps a map write and stops the
\* process: "fatal error: concurrent map read and map write".
MapAccessFault(p) ==
    /\ ~crashed
    /\ pc[p] \in {"get1", "get2", "get3"}
    /\ Racing(p)
    /\ crashed' = TRUE
    /\ UNCHANGED << pc, rec, getVars, cache, refreshLock, now, accVars,
                    steps, solo >>

\* send, lines 176-180: Get returned an error.
GetFailed(p) ==
    /\ FailLocally(p, getRes[p].err)
    /\ pc' = [pc EXCEPT ![p] = "returned"]
    /\ UNCHANGED << rec, steps >>

\* A send that does not look at the partitioner's error.
Partition_IgnoreError(p) ==
    \E res \in PartitionerResults(rec[p], getRes[p].partitions) :
        /\ rec' = [rec EXCEPT ![p].partition = res.partition,
                              ![p].metadataChan = p]
        /\ steps' = SetStep(p, "Partitioner", "ok")
        /\ pc' = [pc EXCEPT ![p] = "push"]
        /\ UNCHANGED << mchan, wrote >>

\* send, lines 182-189: the partitioner; on success partition and metadataChan
\* are set.
Partition(p) ==
    \E res \in PartitionerResults(rec[p], getRes[p].partitions) :
        IF res.err # NoError
        THEN /\ FailLocally(p, res.err)
             /\ steps' = SetStep(p, "Partitioner", "err")
             /\ pc' = [pc EXCEPT ![p] = "returned"]
             /\ UNCHANGED rec
        ELSE /\ rec' = [rec EXCEPT ![p].partition = res.partition,
                                   ![p].metadataChan = p]
             /\ steps' = SetStep(p, "Partitioner", "ok")
             /\ pc' = [pc EXCEPT ![p] = "push"]
             /\ UNCHANGED << mchan, wrote >>

\* send, lines 175-189: Get has returned; its error ends the call, otherwise
\* the partitioner runs.  Get's locals are dead from here on.
AfterGet(p) ==
    /\ ~crashed
    /\ pc[p] = "getRet"
    /\ IF getRes[p].err # NoError THEN GetFailed(p) ELSE Partition(p)
    /\ getRes' = [getRes EXCEPT ![p] =
                    IF pc'[p] = "push" THEN getRes[p] ELSE NoResult]
    /\ sites' = [sites EXCEPT ![p] = <<>>]
    /\ rerr' = [rerr EXCEPT ![p] = NoError]
    /\ fetches' = [fetches EXCEPT ![p] = 0]
    /\ chkAge' = [chkAge EXCEPT ![p] = -1]
    /\ chkTs' = [chkTs EXCEPT ![p] = -1]
    /\ retTs' = [retTs EXCEPT ![p] = -1]
    /\ solo' = [SoloAfterStepOf(p) EXCEPT ![p] = TRUE]
    /\ UNCHANGED << resp, idx, cache, refreshLock, now,
                    addChan, accPending, accClosed, flushed, crashed >>

\* send, line 191: kp.accumulator.addChan <- record, and Send returns.
Push(p) ==
    /\ ~crashed
    /\ pc[p] = "push"
    /\ addChan' = Append(addChan, rec[p])
    /\ getRes' = [getRes EXCEPT ![p] = NoResult]
    /\ pc' = [pc EXCEPT ![p] = "returned"]
    /\ solo' = SoloAfterStepOf(p)
    /\ UNCHANGED << rec, sites, rerr, resp, idx, fetches, chkAge, chkTs, retTs,
                    cache, refreshLock, now,
                    mchan, accPending, accClosed, wrote, flushed, crashed, steps >>

\* Close, lines 208-211: the timeout is not read.
Close ==
    /\ ~crashed
    /\ ~accClosed
    /\ accClosed' = TRUE
    /\ UNCHANGED << pc, rec, getVars, cache, refreshLock, now,
                    mchan, addChan, accPending, wrote, flushed, crashed, steps, solo >>

\* The calls of Send that have returned with their record accepted (nothing
\* was written by send) and whose completion channel has not been written yet.
Unanswered == {p \in Procs : pc[p] = "returned" /\ wrote[p] = <<>>}

\* Flush, line 198: an empty body, it returns at once.
Flush ==
    /\ ~crashed
    /\ flushed' = Unanswered
    /\ UNCHANGED << pc, rec, getVars, cache, refreshLock, now,
                    mchan, addChan, accPending, accClosed, wrote,
                    crashed, steps, solo >>

\* ------------------------------------------------------ environment

\* The accumulator takes a record from its ingress channel, until it is closed.
AccIngest ==
    /\ ~crashed
    /\ ~accClosed
    /\ addChan # <<>>
    /\ accPending' = accPending \cup {Head(addChan)}
    /\ addChan' = Tail(addChan)
    /\ UNCHANGED << pc, rec, getVars, cache, refreshLock, now,
                    mchan, accClosed, wrote, flushed, crashed, steps, solo >>

\* The terminal results of the accumulator for record r.
AccResults(r) ==
    { [Offset |-> 5, Topic |-> r.Topic, Partition |-> r.partition, Error |-> NoError],
      [Offset |-> 0, Topic |-> r.Topic, Partition |-> r.partition, Error |-> "delivery failed"] }

\* The accumulator writes the one terminal result of a record it ingested.
AccComplete ==
    /\ ~crashed
    /\ \E r \in accPending : \E md \in AccResults(r) :
        LET ch == r.metadataChan IN
        /\ CanDeliver(ch)
        /\ mchan' = [mchan EXCEPT ![ch] = Append(@, md)]
        /\ wrote' = [wrote EXCEPT ![ch] = Append(@, "accumulator")]
        /\ accPending' = accPending \ {r}
        /\ flushed' = flushed \ {ch}
    /\ UNCHANGED << pc, rec, getVars, cache, refreshLock, now,
                    addChan, accClosed, crashed, steps, solo >>

\* time.Now() advances.
Tick ==
    /\ ~crashed
    /\ now < MaxTime
    /\ now' = now + 1
    /\ UNCHANGED << pc, rec, getVars, cache, refreshLock, accVars,
                    crashed, steps, solo >>

\* The topics call p may send to: up to the names of the topics, every
\* combination of equal and different topics among the calls.
TopicsOf(p) == IF p = 1 THEN {"a"} ELSE Topics

\* The keys call p may send: an absent key or a []byte key, and a key the
\* key serializer rejects.
KeysOf(p) == IF p = 1 THEN Keys \ {BytesValue} ELSE Keys \ {NilValue}

\* The records the application sends.
Records(p) ==
    { [ZeroRecord EXCEPT !.Topic = t, !.Key = k, !.Value = v] :
        t \in TopicsOf(p), k \in KeysOf(p), v \in Values }

Next ==
    \/ \E p \in Procs : \E r \in Records(p) : Send(p, r)
    \/ \E p \in Procs : GetLookup(p)
    \/ \E p \in Procs : RefreshLock(p)
    \/ \E p \in Procs : FetchFailed(p)
    \/ \E p \in Procs : \E r \in Responses : FetchSucceeded(p, r)
    \/ \E p \in Procs : Store(p)
    \/ \E p \in Procs : RefreshReturn(p)
    \/ \E p \in Procs : GetCheck(p)
    \/ \E p \in Procs : GetReturn(p)
    \/ \E p \in Procs : MapAccessFault(p)
    \/ \E p \in Procs : AfterGet(p)
    \/ \E p \in Procs : Push(p)
    \/ Close
    \/ Flush
    \/ AccIngest
    \/ AccComplete
    \/ Tick

Spec == Init /\ [][Next]_vars


\* =====================================================================
\* Properties
\* =====================================================================

Range(seq) == {seq[i] : i \in 1..Len(seq)}

\* The record of call p was pushed onto the accumulator's ingress channel.
Pushed(p) ==
    \/ \E i \in 1..Len(addChan) : addChan[i].metadataChan = p
    \/ \E r \in accPending : r.metadataChan = p
    \/ "accumulator" \in Range(wrote[p])

\* A local step of call p failed.
LocalFailure(p) == \E n \in StepNames : steps[p][n] = "err"

\* Nothing can happen any more: the process stopped, or every call has
\* returned and the accumulator has nothing it will still answer.
Quiescent ==
    \/ crashed
    \/ /\ \A p \in Procs : ~Running(p)
       /\ accPending = {}
       /\ addChan = <<>> \/ accClosed

\* C1: every completion channel Send returned holds exactly one
\* RecordMetadata once the system is quiescent, and never holds two.
C1_ExactlyOneResult ==
    \A p \in Procs :
        /\ Len(wrote[p]) <= 1
        /\ (Quiescent /\ pc[p] = "returned") => Len(mchan[p]) = 1

\* C2: when a local step of Send failed, an error result is in the completion
\* channel when Send returns and the record was never pushed; send itself
\* writes to the channel only on such a failure; a record is pushed only when
\* all four local steps succeeded.
C2_LocalFailureDelivered ==
    \A p \in Procs :
        /\ (pc[p] = "returned" /\ LocalFailure(p)) =>
               /\ wrote[p] = <<"send">>
               /\ Len(mchan[p]) = 1
               /\ mchan[p][1].Error # NoError
               /\ ~Pushed(p)
        /\ "send" \in Range(wrote[p]) => LocalFailure(p)
        /\ (pc[p] = "returned" /\ ~LocalFailure(p)) => Pushed(p)
        /\ Pushed(p) => \A n \in StepNames : steps[p][n] = "ok"

\* A call failed locally at the partitioner, after three successful steps.
C2_Witness ==
    \E p \in Procs :
        /\ pc[p] = "returned"
        /\ steps[p]["Partitioner"] = "err"
        /\ mchan[p] = <<ErrorMetadata(ErrPartition)>>
        /\ ~Pushed(p)

\* C3: when the key serializer failed, the value serializer, the metadata
\* cache and the partitioner were never invoked; when the value serializer
\* failed, the metadata cache and the partitioner were never invoked; either
\* way the error result is in the channel and Send has returned.
C3_SerializationShortCircuits ==
    \A p \in Procs :
        /\ steps[p]["keySerializer"] = "err" =>
               /\ steps[p]["valueSerializer"] = NotRun
               /\ steps[p]["Get"] = NotRun
               /\ steps[p]["Partitioner"] = NotRun
               /\ fetches[p] = 0
               /\ pc[p] = "returned"
               /\ mchan[p] = <<ErrorMetadata(ErrSerialize)>>
        /\ steps[p]["valueSerializer"] = "err" =>
               /\ steps[p]["Get"] = NotRun
               /\ steps[p]["Partitioner"] = NotRun
               /\ fetches[p] = 0
               /\ pc[p] = "returned"
               /\ mchan[p] = <<ErrorMetadata(ErrSerialize)>>

\* A key that does not serialize, on a record whose value would not either.
C3_Witness ==
    \E p \in Procs :
        /\ steps[p]["keySerializer"] = "err"
        /\ rec[p].Value = BytesValue
        /\ pc[p] = "returned"


\* Get of call p has returned and send has not yet looked at the result.
GetDone(p) == pc[p] = "getRet"

\* Get of call p made the refresh of line 240 and that refresh has returned.
StaleRefreshDone(p) ==
    GetDone(p) /\ sites[p] # <<>> /\ Last(sites[p]) = 2 /\ fetches[p] >= 1

\* C4 as claimed: a Get whose staleness check saw an entry of age >= TTL has
\* made the refresh of line 240 when it returns.
C4_RefreshAtOrBeyondTTL ==
    \A p \in Procs :
        (GetDone(p) /\ chkAge[p] >= TTL) => StaleRefreshDone(p)

\* C4 as amended: a Get that checked an entry makes the refresh of line 240
\* exactly when the entry's age is strictly greater than the TTL; at an age
\* equal to the TTL it makes none.
C4_RefreshBeyondTTL ==
    \A p \in Procs :
        (GetDone(p) /\ chkAge[p] >= 0) =>
            (StaleRefreshDone(p) <=> chkAge[p] > TTL)

\* A Get that saw an entry older than the TTL and has refreshed it.
C4_Witness ==
    \E p \in Procs :
        GetDone(p) /\ chkAge[p] > TTL /\ StaleRefreshDone(p)

\* C5: a Get that runs alone and finds an entry at its first lookup returns
\* the cached list without any Connector invocation when the entry's age is
\* below the TTL, and invokes the Connector exactly once when the age exceeds
\* the TTL.
C5_SoloGetFetches ==
    \A p \in Procs :
        (GetDone(p) /\ solo[p] /\ chkAge[p] >= 0 /\ 1 \notin Range(sites[p])) =>
            /\ chkAge[p] < TTL =>
                   /\ fetches[p] = 0
                   /\ ~IsNil(cache[rec[p].Topic])
                   /\ getRes[p] = GetOk(cache[rec[p].Topic].partitions)
            /\ chkAge[p] > TTL => fetches[p] = 1

\* A Get that ran alone on an entry older than the TTL.
C5_Witness ==
    \E p \in Procs :
        /\ GetDone(p) /\ solo[p] /\ 1 \notin Range(sites[p])
        /\ chkAge[p] > TTL /\ fetches[p] = 1

\* A Get that ran alone on an entry younger than the TTL.
C5_WitnessFresh ==
    \E p \in Procs :
        /\ GetDone(p) /\ solo[p] /\ 1 \notin Range(sites[p])
        /\ chkAge[p] >= 0 /\ chkAge[p] < TTL /\ fetches[p] = 0
        /\ getRes[p].err = NoError

\* The calls whose Get for topic t has returned.
Getters(t) == {p \in Procs : GetDone(p) /\ rec[p].Topic = t}

\* Only the calls in G have called Get so far, on a cache that was empty.
OnlyGetters(G) == \A q \in Procs \ G : steps[q]["Get"] = NotRun

RECURSIVE SumFetches(_)
SumFetches(S) ==
    IF S = {} THEN 0
    ELSE LET p == CHOOSE x \in S : TRUE IN fetches[p] + SumFetches(S \ {p})

\* C6 as claimed: the N calls of Get for a topic without an entry invoke the
\* Connector at least once and at most N times.
C6_AtMostNFetches ==
    \A t \in Topics :
        LET G == Getters(t) IN
        (G # {} /\ OnlyGetters(G)) =>
            /\ SumFetches(G) >= 1
            /\ SumFetches(G) <= Cardinality(G)

\* C6 as amended: they invoke the Connector at least once and at most 2N
\* times, each Get at most twice (once for the missing entry, once more when
\* the clock has passed the TTL before its staleness check).
C6_AtMostTwoFetchesEach ==
    /\ \A p \in Procs : fetches[p] <= 2
    /\ \A t \in Topics :
        LET G == Getters(t) IN
        (G # {} /\ OnlyGetters(G)) =>
            /\ SumFetches(G) >= 1
            /\ SumFetches(G) <= 2 * Cardinality(G)

\* Two concurrent calls of Get for the same topic that made three fetches.
C6_Witness ==
    \E t \in Topics :
        /\ Cardinality(Getters(t)) = 2
        /\ OnlyGetters(Getters(t))
        /\ SumFetches(Getters(t)) = 3

\* The calls whose Connector.GetTopicMetadata is in flight.
InFlight == {p \in Procs : pc[p] = "fetching"}
\* The calls inside Refresh, past Lock.
InRefresh(p) == pc[p] \in {"fetching", "store"}

\* C7: at most one GetTopicMetadata call is in flight; a call is between
\* Lock and Unlock of Refresh exactly when it holds the refresh lock, on the
\* success and on the failure path.
C7_OneFetchInFlight ==
    /\ Cardinality(InFlight) <= 1
    /\ \A p \in Procs : InRefresh(p) <=> refreshLock = p

\* One call fetches while a call for another topic waits for the lock.
C7_Witness ==
    \E p, q \in Procs :
        /\ pc[p] = "fetching" /\ pc[q] = "lock"
        /\ rec[p].Topic # rec[q].Topic

\* C8: when the refresh of a stale entry failed, Get returns an error and no
\* partition list.
C8_StaleRefreshFailureIsError ==
    \A p \in Procs :
        (StaleRefreshDone(p) /\ chkAge[p] > TTL /\ rerr[p] # NoError) =>
            /\ getRes[p].err # NoError
            /\ "partitions" \notin DOMAIN getRes[p]

\* The refresh of a stale entry failed while the older list is still cached.
C8_Witness ==
    \E p \in Procs :
        /\ StaleRefreshDone(p) /\ chkAge[p] > TTL /\ rerr[p] # NoError
        /\ ~IsNil(cache[rec[p].Topic])
        /\ cache[rec[p].Topic].partitions # <<>>
        /\ cache[rec[p].Topic].timestamp = chkTs[p]

\* C9 (for an entry beyond the TTL; at an age equal to the TTL see C4): a Get
\* whose staleness check found the entry older than the TTL and that returns
\* a list without error returns the list of a newer entry, never that of the
\* entry it found stale.
C9_NeverServesStaleList ==
    \A p \in Procs :
        (GetDone(p) /\ getRes[p].err = NoError /\ chkAge[p] > TTL) =>
            retTs[p] > chkTs[p]

\* C10: when the loop of a successful Refresh is done, the entry of every
\* topic of the response holds exactly the fetched partition IDs, in order,
\* with a timestamp not older than the staleness check that asked for the
\* refresh; and a Get that ran alone returns exactly the cached list.
C10_RefreshReplaces ==
    \A p \in Procs :
        /\ (pc[p] = "store" /\ idx[p] > Len(resp[p])) =>
            \A i \in 1..Len(resp[p]) :
                LET tm == resp[p][i]
                    e == cache[tm.Topic] IN
                /\ ~IsNil(e)
                /\ Len(e.partitions) = Len(tm.PartitionsMetadata)
                /\ \A j \in 1..Len(e.partitions) :
                       e.partitions[j] = tm.PartitionsMetadata[j].PartitionID
                /\ e.timestamp <= now
                /\ Last(sites[p]) = 2 => e.timestamp >= chkTs[p] + chkAge[p]
        /\ (GetDone(p) /\ solo[p] /\ getRes[p].err = NoError) =>
            /\ ~IsNil(cache[rec[p].Topic])
            /\ getRes[p].partitions = cache[rec[p].Topic].partitions
            /\ retTs[p] = cache[rec[p].Topic].timestamp

\* The refresh of a stale entry has replaced partitions 0 and 1, which an
\* earlier Get returned, by the empty list of the response.
C10_Witness ==
    \E p, q \in Procs :
        /\ pc[p] = "store" /\ idx[p] > Len(resp[p]) /\ Last(sites[p]) = 2
        /\ \E i \in 1..Len(resp[p]) :
               /\ resp[p][i].Topic = rec[p].Topic
               /\ resp[p][i].PartitionsMetadata = <<>>
        /\ cache[rec[p].Topic].partitions = <<>>
        /\ GetDone(q) /\ rec[q].Topic = rec[p].Topic
        /\ getRes[q] = GetOk(<<0, 1>>)

\* C11: the step in which the Connector's fetch fails leaves tmc.cache exactly
\* as it was (every topic's entry, list and timestamp), releases the refresh
\* lock and makes Get return the Connector's error without a list; an entry
\* that was missing or stale before the step is missing or stale after it, so
\* the first lookup or the staleness check of a later Get calls Refresh again.
C11_FetchFailureLeavesCache ==
    [][\A p \in Procs :
          (pc[p] = "fetching" /\ pc'[p] = "getRet") =>
              /\ cache' = cache
              /\ refreshLock' = 0
              /\ rerr'[p] = ErrFetch
              /\ getRes'[p] = GetErr(ErrFetch)
              /\ \A t \in Topics :
                     IF IsNil(cache[t]) THEN IsNil(cache'[t])
                     ELSE /\ ~IsNil(cache'[t])
                          /\ IsStale(cache'[t], now') = IsStale(cache[t], now)]_vars

\* The refresh of a stale entry failed and the entry is still cached as it
\* was, and a later Get for the same topic is fetching again.
C11_Witness ==
    \E p, q \in Procs :
        /\ GetDone(p) /\ rerr[p] = ErrFetch /\ Last(sites[p]) = 2
        /\ ~IsNil(cache[rec[p].Topic])
        /\ cache[rec[p].Topic].timestamp = chkTs[p]
        /\ cache[rec[p].Topic].partitions = <<0, 1>>
        /\ rec[q].Topic = rec[p].Topic
        /\ pc[q] = "fetching"

\* Call p is at one of Get's three reads of tmc.cache (lines 229, 237, 246).
AtMapRead(p) == pc[p] \in {"get1", "get2", "get3"}
\* Call q is at Refresh's write of tmc.cache (line 269).
AtMapWrite(q) == pc[q] = "store" /\ idx[q] <= Len(resp[q])

\* C12: no call of Get is at a read of tmc.cache while another call's Refresh
\* is at a write of it, and the runtime never stops the process for a
\* concurrent map read and map write.
C12_NoReadDuringWrite ==
    /\ ~crashed
    /\ \A p, q \in Procs :
           p # q => ~(AtMapRead(p) /\ AtMapWrite(q))

\* C13: once Close has been called nothing is appended to the accumulator's
\* ingress channel, and every call of Send that returns from then on returns
\* with an error result in its completion channel.
C13_NoPushAfterClose ==
    [][accClosed =>
          /\ Len(addChan') <= Len(addChan)
          /\ \A p \in Procs :
                 (pc[p] # "returned" /\ pc'[p] = "returned") =>
                     /\ Len(mchan'[p]) = 1
                     /\ mchan'[p][1].Error # NoError]_vars

\* C14: when Flush returns, every record accepted by a call of Send that had
\* returned before has a terminal result in its completion channel: no
\* returned Flush has left an accepted record without one.
C14_FlushWaits == flushed = {}

\* C15: a Get whose first lookup found no entry for its topic has invoked the
\* Connector itself, holding the refresh lock, before it goes on to the
\* second lookup and before it returns, with a list or with an error, also
\* when another call stored the entry in the meantime; and a Get that ran
\* alone and returns that there is no metadata has invoked the Connector.
C15_OwnFetchOnMiss ==
    \A p \in Procs :
        /\ (pc[p] \in {"get2", "get3", "getRet"} /\ 1 \in Range(sites[p])) =>
               fetches[p] >= 1
        /\ (pc[p] = "fetching" /\ fetches[p] >= 1) => refreshLock = p
        /\ (GetDone(p) /\ solo[p] /\ getRes[p].err = ErrNoMetadata) =>
               fetches[p] >= 1

\* Two calls missed the entry of the same topic; both have returned its list,
\* each after one fetch of its own.
C15_Witness ==
    \E p, q \in Procs :
        /\ p # q /\ rec[p].Topic = rec[q].Topic
        /\ GetDone(p) /\ GetDone(q)
        /\ sites[p] = <<1>> /\ sites[q] = <<1>>
        /\ fetches[p] = 1 /\ fetches[q] = 1
        /\ getRes[p] = GetOk(<<0, 1>>) /\ getRes[q] = GetOk(<<0, 1>>)

\* C16: when Get has returned, under every interleaving: if the last Refresh
\* it called failed, it returns that error; an error it returns is the
\* Connector's (and then a Refresh it called failed) or the one for missing
\* metadata, and comes without a list.  For a Get that ran alone: it returns
\* an error exactly when a Refresh it called failed or the topic has no entry
\* (and then, the Refresh having succeeded, after its own fetch); otherwise it
\* returns the list of the topic's entry and no error.
C16_GetErrorIff ==
    \A p \in Procs :
        GetDone(p) =>
            LET res == getRes[p]
                e == cache[rec[p].Topic] IN
            /\ rerr[p] # NoError => res = GetErr(rerr[p])
            /\ res.err # NoError =>
                   /\ res.err \in {ErrFetch, ErrNoMetadata}
                   /\ "partitions" \notin DOMAIN res
            /\ res.err = ErrFetch => (rerr[p] = ErrFetch /\ fetches[p] >= 1)
            /\ solo[p] =>
                   /\ res.err # NoError <=> (rerr[p] # NoError \/ IsNil(e))
                   /\ res.err = ErrNoMetadata =>
                          (rerr[p] = NoError /\ IsNil(e) /\ fetches[p] = 1)
                   /\ res.err = NoError => res = GetOk(e.partitions)

\* A Get that ran alone fetched without error a response that does not hold
\* its topic, and has returned the error for missing metadata.
C16_Witness ==
    \E p \in Procs :
        /\ GetDone(p) /\ solo[p]
        /\ getRes[p] = GetErr(ErrNoMetadata)
        /\ rerr[p] = NoError /\ fetches[p] = 1
        /\ IsNil(cache[rec[p].Topic])
        /\ \E t \in Topics : ~IsNil(cache[t])

\* C17: every RecordMetadata in a completion channel carries the topic of the
\* record its call of Send was given, the error results written by send on a
\* local failure included.
C17_TopicEchoed ==
    \A p \in Procs :
        \A i \in 1..Len(mchan[p]) : mchan[p][i].Topic = rec[p].Topic

\* The records on the accumulator's ingress channel or ingested by it.
PushedRecords == Range(addChan) \cup accPending

\* C18: a call that failed at a serializer holds the record as it was given,
\* all four fields untouched; a call that failed at Get or at the partitioner
\* holds it with both encoded fields set and partition and metadataChan
\* untouched; the encoded fields are set only once both serializers have
\* succeeded, partition and metadataChan only once the partitioner has; and
\* every pushed record carries its serialized key and value, a partition and
\* the completion channel that its call of Send returns.
C18_FieldsSetInOrder ==
    /\ \A p \in Procs :
        LET r == rec[p]
            given == [r EXCEPT !.encodedKey = NilBytes, !.encodedValue = NilBytes,
                               !.partition = 0, !.metadataChan = NilChan] IN
        /\ pc[p] # "start" => given \in Records(p)
        /\ (steps[p]["keySerializer"] = "err" \/ steps[p]["valueSerializer"] = "err") =>
               r = given
        /\ (steps[p]["keySerializer"] # "ok" \/ steps[p]["valueSerializer"] # "ok") =>
               (r.encodedKey = NilBytes /\ r.encodedValue = NilBytes)
        /\ (pc[p] # "start" /\ steps[p]["valueSerializer"] = "ok") =>
               /\ r.encodedKey = keySerializer(r.Key).bytes
               /\ r.encodedValue = valueSerializer(r.Value).bytes
        /\ steps[p]["Partitioner"] # "ok" =>
               (r.partition = 0 /\ r.metadataChan = NilChan)
        /\ steps[p]["Partitioner"] = "ok" => r.metadataChan = p
    /\ \A r \in PushedRecords :
        /\ r.metadataChan \in Procs
        /\ r = rec[r.metadataChan]
        /\ pc[r.metadataChan] = "returned"
        /\ \A n \in StepNames : steps[r.metadataChan][n] = "ok"
        /\ r.encodedKey = keySerializer(r.Key).bytes
        /\ r.encodedValue = valueSerializer(r.Value).bytes
        /\ ~r.encodedValue.isNil

\* A record with a []byte key was pushed with all four fields set, while the
\* record of a call that failed at the partitioner has only its encoded
\* fields set.
C18_Witness ==
    \E p, q \in Procs :
        /\ rec[p] \in PushedRecords
        /\ rec[p].encodedKey = Bytes(<<7>>) /\ rec[p].encodedValue = Bytes(<<7>>)
        /\ rec[p].partition = 1 /\ rec[p].metadataChan = p
        /\ steps[q]["Partitioner"] = "err"
        /\ rec[q].encodedKey = NilBytes /\ ~rec[q].encodedValue.isNil
        /\ rec[q].metadataChan = NilChan

\* C19: with a partitioner that returns a member of a non-empty list and
\* fails on an empty one: when Get has returned a list, send goes on to the
\* push only with a partition that is a member of that list, and the record
\* it then pushes has that partition; when the list is empty, send writes the
\* partitioner's error to the completion channel and returns, and nothing is
\* enqueued.
C19_PartitionFromList ==
    [][\A p \in Procs :
          /\ (pc[p] = "getRet" /\ pc'[p] # "getRet" /\ getRes[p].err = NoError) =>
                 IF getRes[p].partitions = <<>>
                 THEN /\ pc'[p] = "returned"
                      /\ mchan'[p] = <<ErrorMetadata(ErrPartition)>>
                      /\ addChan' = addChan
                      /\ rec'[p] = rec[p]
                 ELSE /\ pc'[p] = "push"
                      /\ getRes'[p] = getRes[p]
                      /\ rec'[p].partition \in Range(getRes[p].partitions)
                      /\ addChan' = addChan
          /\ (pc[p] = "push" /\ pc'[p] # "push") =>
                 /\ addChan' = Append(addChan, rec[p])
                 /\ rec[p].partition \in Range(getRes[p].partitions)
          /\ (pc[p] # "push" /\ pc'[p] = pc[p]) =>
                 \A r \in Range(addChan') \ Range(addChan) : r.metadataChan # p]_vars

\* One call is about to push its record with partition 1 of the list <<0, 1>>
\* Get returned to it; another got the empty list of a cached entry and has
\* returned with the partitioner's error, its record not enqueued.
C19_Witness ==
    \E p, q \in Procs :
        /\ pc[p] = "push" /\ getRes[p] = GetOk(<<0, 1>>) /\ rec[p].partition = 1
        /\ pc[q] = "returned" /\ steps[q]["Partitioner"] = "err"
        /\ ~IsNil(cache[rec[q].Topic]) /\ cache[rec[q].Topic].partitions = <<>>
        /\ mchan[q] = <<ErrorMetadata(ErrPartition)>>
        /\ ~Pushed(q)

\* C20: a step changes the entry of a topic only if it is the step of a
\* Refresh that stores the response's element for that topic, requested or
\* not; every other topic's entry is the same after the step, in presence,
\* list and timestamp; and no step removes an entry.
C20_RefreshFrame ==
    [][\A t \in Topics :
          /\ cache'[t] # cache[t] =>
                 \E p \in Procs :
                     /\ pc[p] = "store" /\ refreshLock = p
                     /\ idx[p] <= Len(resp[p])
                     /\ resp[p][idx[p]].Topic = t
                     /\ cache'[t] = newTopicMetadataCacheEntry(
                            AppendPartitionIDs(<<>>, resp[p][idx[p]].PartitionsMetadata),
                            now)
          /\ ~IsNil(cache[t]) => ~IsNil(cache'[t])]_vars

\* Topic "b" has an entry although no call asked for it, and the entry of
\* "a", stored earlier, is still there next to it.
C20_Witness ==
    /\ \A p \in Procs : pc[p] # "start" /\ rec[p].Topic = "a"
    /\ ~IsNil(cache["b"]) /\ ~IsNil(cache["a"])
    /\ cache["a"].timestamp < cache["b"].timestamp
    /\ cache["a"].partitions = <<0, 1>>

====
